---- MODULE Spec2Model ----
(***************************************************************************)
(* Model of the HTML slide editor (as_is_to_be_5.py = Variant A,           *)
(* as_is_to_be_9_1.py = Variant B): the rich-text codec, the extractor     *)
(* parse_html_fields, the synthesizer apply_fields_to_html and the         *)
(* Streamlit script that drives them through st.session_state.             *)
(*                                                                         *)
(* Text is a sequence of atoms. An atom is one of the characters the code  *)
(* treats specially (" ", "\n", "\r" are whitespace, "<" and "&" are       *)
(* markup-significant) or an opaque chunk of other characters ("TBD").     *)
(* An HTML string is a document record whose element contents are markup   *)
(* token sequences; a soup is the same record with node sequences.         *)
(***************************************************************************)
EXTENDS Integers, Sequences, FiniteSets, TLC

VARIABLES
    \* rich-text codec run (set_rich_text -> str(soup) -> BeautifulSoup -> get_text)
    cpc, value, el, markup, decoded,
    \* extractor / synthesizer run
    pc, variant, html, fields, label_lang, edit, out, refields, out2, refields2,
    \* Streamlit session
    app, session, uploader, importer, state_file, preview_html, current, applied_lang,
    import_error, last_action, runs, pressed, upload_msg, form

codecVars == <<cpc, value, el, markup, decoded>>
coreVars == <<pc, variant, html, fields, label_lang, edit, out, refields, out2, refields2>>
appVars == <<app, session, uploader, importer, state_file, preview_html, current,
             applied_lang, import_error, last_action, runs, pressed, upload_msg, form>>
vars == <<codecVars, coreVars, appVars>>

(***************************************************************************)
(* Bounds                                                                  *)
(***************************************************************************)
MaxLen == 3
MaxSections == 6
MaxRuns == 4

(***************************************************************************)
(* Text                                                                    *)
(***************************************************************************)
NL == "\n"
CR == "\r"
Whitespace == {" ", NL, CR}

RECURSIVE Concat(_)
Concat(ss) == IF ss = <<>> THEN <<>> ELSE Head(ss) \o Concat(Tail(ss))

RECURSIVE Join(_, _)
Join(ss, sep) ==
    IF ss = <<>> THEN <<>>
    ELSE IF Len(ss) = 1 THEN ss[1]
    ELSE ss[1] \o sep \o Join(Tail(ss), sep)

RECURSIVE LStrip(_)
LStrip(s) == IF s # <<>> /\ Head(s) \in Whitespace THEN LStrip(Tail(s)) ELSE s

RECURSIVE RStrip(_)
RStrip(s) ==
    IF s # <<>> /\ s[Len(s)] \in Whitespace THEN RStrip(SubSeq(s, 1, Len(s) - 1)) ELSE s

\* str.strip()
Strip(s) == RStrip(LStrip(s))

\* value.replace("\r\n", "\n").replace("\r", "\n")
RECURSIVE NormNewlines(_)
NormNewlines(s) ==
    IF s = <<>> THEN <<>>
    ELSE IF Head(s) = CR /\ Len(s) > 1 /\ s[2] = NL THEN <<NL>> \o NormNewlines(Tail(Tail(s)))
    ELSE IF Head(s) = CR THEN <<NL>> \o NormNewlines(Tail(s))
    ELSE <<Head(s)>> \o NormNewlines(Tail(s))

\* value.split("\n"): always at least one part
RECURSIVE SplitNL(_, _)
SplitNL(s, cur) ==
    IF s = <<>> THEN <<cur>>
    ELSE IF Head(s) = NL THEN <<cur>> \o SplitNL(Tail(s), <<>>)
    ELSE SplitNL(Tail(s), Append(cur, Head(s)))

(***************************************************************************)
(* Nodes, serialisation and parsing of an element's content                *)
(***************************************************************************)
TextNode(s) == [t |-> "text", s |-> s]
BrNode == [t |-> "br", s |-> <<>>]
InlineNode(s) == [t |-> "b", s |-> s]
BogusNode == [t |-> "tag", s |-> <<>>]

\* output formatter "minimal": & and < of a text node leave as entities
EscapeAtom(c) == IF c = "&" THEN "&amp;" ELSE IF c = "<" THEN "&lt;" ELSE c

Escape(s) == [i \in 1..Len(s) |-> EscapeAtom(s[i])]

UnescapeAtom(tok) == IF tok = "&amp;" THEN "&" ELSE IF tok = "&lt;" THEN "<" ELSE tok

\* str(soup) of one node
NodeMarkup(n) ==
    IF n.t = "text" THEN Escape(n.s)
    ELSE IF n.t = "br" THEN <<"<br/>">>
    ELSE IF n.t = "b" THEN <<"<b>">> \o Escape(n.s) \o <<"</b>">>
    ELSE <<"<">>

RECURSIVE Serialize(_)
Serialize(nodes) ==
    IF nodes = <<>> THEN <<>> ELSE NodeMarkup(Head(nodes)) \o Serialize(Tail(nodes))

\* html.parser: character data between two tags is one text node, "<" opens a tag
Flush(st) ==
    IF st.txt = <<>> THEN st
    ELSE [st EXCEPT !.nodes = Append(st.nodes, TextNode(st.txt)), !.txt = <<>>]

RECURSIVE ParseFrom(_, _)
ParseFrom(m, st) ==
    IF m = <<>> THEN Flush(st).nodes
    ELSE LET tok == Head(m) IN
         IF tok = "<br/>" THEN
             ParseFrom(Tail(m), [Flush(st) EXCEPT !.nodes = Append(Flush(st).nodes, BrNode)])
         ELSE IF tok = "<b>" THEN
             ParseFrom(Tail(m), [Flush(st) EXCEPT !.inb = TRUE])
         ELSE IF tok = "</b>" THEN
             ParseFrom(Tail(m), [nodes |-> Append(st.nodes, InlineNode(st.txt)),
                                 txt |-> <<>>, inb |-> FALSE])
         ELSE IF tok = "<" THEN
             ParseFrom(Tail(m), [Flush(st) EXCEPT !.nodes = Append(Flush(st).nodes, BogusNode)])
         ELSE ParseFrom(Tail(m), [st EXCEPT !.txt = Append(st.txt, UnescapeAtom(tok))])

ParseMarkup(m) == ParseFrom(m, [nodes |-> <<>>, txt |-> <<>>, inb |-> FALSE])

(***************************************************************************)
(* Rich-text codec                                                         *)
(***************************************************************************)
\* Tag._all_strings: the strings of the descendants, in document order
RECURSIVE AllStrings(_, _)
AllStrings(nodes, strip) ==
    IF nodes = <<>> THEN <<>>
    ELSE LET n == Head(nodes)
             raw == IF n.t = "text" \/ (n.t = "b" /\ n.s # <<>>) THEN <<n.s>> ELSE <<>>
             got == IF raw = <<>> THEN <<>>
                    ELSE IF ~strip THEN raw
                    ELSE IF Strip(raw[1]) = <<>> THEN <<>> ELSE <<Strip(raw[1])>>
         IN got \o AllStrings(Tail(nodes), strip)

\* el.get_text(strip=True)
GetTextStrip(nodes) == Concat(AllStrings(nodes, TRUE))

\* _text_with_newlines
TextWithNewlines(nodes) == NormNewlines(Join(AllStrings(nodes, FALSE), <<NL>>))

RECURSIVE PartsToNodes(_)
PartsToNodes(parts) ==
    IF Len(parts) = 1 THEN <<TextNode(parts[1])>>
    ELSE <<TextNode(parts[1]), BrNode>> \o PartsToNodes(Tail(parts))

\* set_rich_text: the new children of the element
RichNodes(v) == PartsToNodes(SplitNL(NormNewlines(v), <<>>))

\* el.string = value
StringNodes(v) == <<TextNode(v)>>

(***************************************************************************)
(* Field schema                                                            *)
(***************************************************************************)
LEFT_KEYS == <<"left_people", "left_process", "left_technology", "left_data", "left_output">>
RIGHT_KEYS ==
    <<"right_people", "right_process", "right_technology", "right_data", "right_output">>

\* FIELD_KEYS of the two scripts
FIELD_KEYS(var) ==
    <<"title", "left_label", "right_label">> \o LEFT_KEYS \o RIGHT_KEYS
        \o (IF var = "A" THEN <<"page_number", "footer_summary">> ELSE <<"user_notes">>)

Range(seq) == {seq[i] : i \in 1..Len(seq)}

FieldKeySet(var) == Range(FIELD_KEYS(var))

IndexOf(seq, x) == CHOOSE i \in 1..Len(seq) : seq[i] = x

TBD == <<"TBD">>

DEFAULTS(var) ==
    [k \in FieldKeySet(var) |->
        CASE k = "left_label" -> <<"AS-IS", " ", "(danes)">>
          [] k = "right_label" -> <<"Ambicija", " ", "(to-be)">>
          [] k = "page_number" -> <<"1">>
          [] k = "footer_summary" ->
                <<"Digitalizacija", " ", "in", " ", "centralizacija", " ", "procesa", " ",
                  "z", " ", "avtomatskimi", " ", "kontrolami.">>
          [] k = "user_notes" -> <<>>
          [] OTHER -> TBD]

STATIC_LABELS ==
    [sl |-> <<<<"Ljudje:">>, <<"Proces:">>, <<"Tehnologija:">>, <<"Podatki:">>, <<"Output:">>>>,
     en |-> <<<<"People:">>, <<"Process:">>, <<"Technology:">>, <<"Data:">>, <<"Output:">>>>]

\* the number of sections a panel keeps, and of content fields per panel
NumSections == 5

(***************************************************************************)
(* Documents                                                               *)
(***************************************************************************)
NoEl == [has |-> FALSE, kids |-> <<>>]
El(kids) == [has |-> TRUE, kids |-> kids]
NoPanel == [tag |-> NoEl, secs |-> <<>>]
NoUser == [footcls |-> FALSE, secs |-> <<>>]

\* body items that are footer landmarks: <footer>, role="contentinfo",
\* an id containing "footer", a class containing "footer"
FooterKinds == {"footer", "role", "fid", "fcls"}

MapEl(e, F(_)) == [e EXCEPT !.kids = F(e.kids)]
MapSecs(secs, F(_)) ==
    [i \in 1..Len(secs) |-> [secs[i] EXCEPT !.h3 = MapEl(secs[i].h3, F),
                                            !.p = MapEl(secs[i].p, F)]]
MapDoc(d, F(_)) ==
    [d EXCEPT !.h1 = MapEl(d.h1, F),
              !.left = [tag |-> MapEl(d.left.tag, F), secs |-> MapSecs(d.left.secs, F)],
              !.right = [tag |-> MapEl(d.right.tag, F), secs |-> MapSecs(d.right.secs, F)],
              !.user = [d.user EXCEPT !.secs = MapSecs(d.user.secs, F)],
              !.pagenum = MapEl(d.pagenum, F),
              !.summary = MapEl(d.summary, F)]

\* BeautifulSoup(html, "html.parser")
Soup(h) == MapDoc(h, ParseMarkup)

\* str(soup)
Str(soup) == MapDoc(soup, Serialize)

Has(d, item) == item \in Range(d.body)

Panel(d, side) == IF side = "left" THEN d.left ELSE d.right

\* soup.select(".panel.<side> .section p") / "... h3": the sections holding one
RECURSIVE Holding(_, _, _)
Holding(secs, what, i) ==
    IF i > Len(secs) THEN <<>>
    ELSE (IF (IF what = "p" THEN secs[i].p.has ELSE secs[i].h3.has) THEN <<i>> ELSE <<>>)
         \o Holding(secs, what, i + 1)

Paragraphs(d, side) == IF Has(d, side) THEN Holding(Panel(d, side).secs, "p", 1) ELSE <<>>
Headings(d, side) == IF Has(d, side) THEN Holding(Panel(d, side).secs, "h3", 1) ELSE <<>>
UserParagraphs(d) == IF Has(d, "user") THEN Holding(d.user.secs, "p", 1) ELSE <<>>

(***************************************************************************)
(* Extractor: parse_html_fields                                            *)
(***************************************************************************)
\* get_text(strip=True) in Variant A, _text_with_newlines in Variant B
ElText(var, e) ==
    IF ~e.has THEN <<>>
    ELSE IF var = "A" THEN GetTextStrip(e.kids) ELSE TextWithNewlines(e.kids)

\* sec(idx, arr), idx counted from 0
Sec(var, d, side, idx) ==
    LET ps == Paragraphs(d, side)
    IN IF Len(ps) > idx THEN ElText(var, Panel(d, side).secs[ps[idx + 1]].p) ELSE <<>>

\* the text a field's selector finds, "" when it finds nothing
RawField(var, d, k) ==
    CASE k = "title" -> IF Has(d, "h1") THEN ElText(var, d.h1) ELSE <<>>
      [] k = "left_label" -> IF Has(d, "left") THEN ElText(var, d.left.tag) ELSE <<>>
      [] k = "right_label" -> IF Has(d, "right") THEN ElText(var, d.right.tag) ELSE <<>>
      [] k \in Range(LEFT_KEYS) -> Sec(var, d, "left", IndexOf(LEFT_KEYS, k) - 1)
      [] k \in Range(RIGHT_KEYS) -> Sec(var, d, "right", IndexOf(RIGHT_KEYS, k) - 1)
      [] k = "page_number" -> IF Has(d, "footer") THEN ElText(var, d.pagenum) ELSE <<>>
      [] k = "footer_summary" -> IF Has(d, "footer") THEN ElText(var, d.summary) ELSE <<>>
      [] k = "user_notes" ->
            IF UserParagraphs(d) # <<>>
            THEN ElText(var, d.user.secs[UserParagraphs(d)[1]].p) ELSE <<>>

SubstituteNothing(var, k, txt) == txt

\* "if not fields.get(k): fields[k] = DEFAULTS.get(k, 'TBD')"
SubstituteDefault(var, k, txt) == IF txt = <<>> THEN DEFAULTS(var)[k] ELSE txt

parse_html_fields(var, h) ==
    LET soup == Soup(h)
    IN [k \in FieldKeySet(var) |-> SubstituteDefault(var, k, RawField(var, soup, k))]

(***************************************************************************)
(* Synthesizer: apply_fields_to_html                                       *)
(***************************************************************************)
SetLangNever(d, lang) == d

\* soup.html["lang"] = label_lang
SetLang(d, lang) ==
    IF lang \in {"sl", "en"} /\ d.root # "nohtml" THEN [d EXCEPT !.root = lang] ELSE d

FirstN(seq, n) == IF Len(seq) > n THEN SubSeq(seq, 1, n) ELSE seq

TrimNothing(d) == d

\* Variant B: sections[5:] of each panel and user_sections[1:] are decomposed
TrimSections(d) ==
    [d EXCEPT !.left.secs = FirstN(@, NumSections),
              !.right.secs = FirstN(@, NumSections),
              !.user.secs = FirstN(@, 1)]

\* set_rich_text (Variant B) / el.string = value (Variant A) on a found element
SetEl(var, e, v) ==
    IF ~e.has THEN e ELSE El(IF var = "A" THEN StringNodes(v) ELSE RichNodes(v))

SetTitleAndLabels(var, d, f) ==
    [d EXCEPT !.h1 = SetEl(var, @, f["title"]),
              !.left.tag = SetEl(var, @, f["left_label"]),
              !.right.tag = SetEl(var, @, f["right_label"])]

\* the position of section i's paragraph (heading) in
\* soup.select(".panel.<side> .section p") (".. h3"), counted from 1
Rank(secs, what, i) ==
    Cardinality({j \in 1..i : IF what = "p" THEN secs[j].p.has ELSE secs[j].h3.has})

\* the five set_sec(panel_sel, idx, value) calls of one panel: call idx writes
\* ps[idx], the paragraph of rank idx + 1, if len(ps) > idx
SetSecs(var, secs, keys, f) ==
    [i \in 1..Len(secs) |->
        LET r == Rank(secs, "p", i)
        IN IF secs[i].p.has /\ r <= NumSections
           THEN [secs[i] EXCEPT !.p = SetEl(var, @, f[keys[r]])]
           ELSE secs[i]]

SetSections(var, d, f) ==
    [d EXCEPT !.left.secs = SetSecs(var, @, LEFT_KEYS, f),
              !.right.secs = SetSecs(var, @, RIGHT_KEYS, f)]

\* set_text(".panel.user .section p", fields["user_notes"])
SetUserNotes(var, d, f) ==
    IF UserParagraphs(d) = <<>> THEN d
    ELSE [d EXCEPT !.user.secs[UserParagraphs(d)[1]].p = SetEl(var, @, f["user_notes"])]

\* set_text("footer .pagenum", ...), set_text("footer strong", ...)
SetFooter(var, d, f) ==
    IF ~Has(d, "footer") THEN d
    ELSE [d EXCEPT !.pagenum = SetEl(var, @, f["page_number"]),
                   !.summary = SetEl(var, @, f["footer_summary"])]

SetHeadsAll(var, secs, labels) ==
    [i \in 1..Len(secs) |->
        [secs[i] EXCEPT !.h3 = SetEl(var, @, labels[IF i <= Len(labels) THEN i ELSE Len(labels)])]]

\* "for idx, text in enumerate(desired): if len(h3s) > idx and h3s[idx]: ..." for
\* one panel: the heading of rank idx + 1 gets desired[idx]
SetHeads(var, secs, labels) ==
    [i \in 1..Len(secs) |->
        LET r == Rank(secs, "h3", i)
        IN IF secs[i].h3.has /\ r <= Len(labels)
           THEN [secs[i] EXCEPT !.h3 = SetEl(var, @, labels[r])]
           ELSE secs[i]]

\* "if label_lang in STATIC_LABELS"
SetStaticHeadings(var, d, lang) ==
    IF lang \in DOMAIN STATIC_LABELS
    THEN [d EXCEPT !.left.secs = SetHeads(var, @, STATIC_LABELS[lang]),
                   !.right.secs = SetHeads(var, @, STATIC_LABELS[lang])]
    ELSE d

IsFooterItem(d, item) == item \in FooterKinds \/ (item = "user" /\ d.user.footcls)

RemoveFooterTagsOnly(d) ==
    [d EXCEPT !.body = SelectSeq(@, LAMBDA item : item # "footer"),
              !.pagenum = NoEl, !.summary = NoEl]

\* Variant B: every footer landmark is decomposed, with all it contains
RemoveFooters(d) ==
    [d EXCEPT !.body = SelectSeq(@, LAMBDA item : ~IsFooterItem(d, item)),
              !.pagenum = IF Has(d, "footer") THEN NoEl ELSE @,
              !.summary = IF Has(d, "footer") THEN NoEl ELSE @,
              !.user = IF d.user.footcls THEN NoUser ELSE @]

\* Variant B: user_panel.extract(); parent.append(user_panel)
RelocateUser(d) ==
    IF Has(d, "user")
    THEN [d EXCEPT !.body = Append(SelectSeq(@, LAMBDA item : item # "user"), "user")]
    ELSE d

apply_fields_to_html(var, h, f, lang) ==
    LET s0 == Soup(h)
        s1 == SetLang(s0, lang)
    IN IF var = "A"
       THEN Str(SetFooter(var,
                SetStaticHeadings(var,
                    SetSections(var, SetTitleAndLabels(var, s1, f), f), lang), f))
       ELSE Str(RelocateUser(RemoveFooters(
                SetStaticHeadings(var,
                    SetUserNotes(var,
                        SetSections(var, SetTitleAndLabels(var, TrimSections(s1), f), f),
                        f), lang))))

(***************************************************************************)
(* Input documents and values                                              *)
(***************************************************************************)
Digits == <<"1", "2", "3", "4", "5", "6", "7", "8", "9">>

RECURSIVE SeqsUpTo(_, _)
SeqsUpTo(S, n) ==
    IF n = 0 THEN {<<>>}
    ELSE LET shorter == SeqsUpTo(S, n - 1)
         IN shorter \cup {Append(q, c) : q \in shorter, c \in S}

\* values a user can type into a text area
CodecValues == SeqsUpTo({"a", " ", NL, CR, "<", "&"}, MaxLen)
EditValues == SeqsUpTo({"a", " ", NL, "<"}, MaxLen)

\* contents an uploaded element can have: one text, or several nodes
Contents ==
    {Escape(v) : v \in EditValues}
    \cup {<<"a", "<br/>", "a">>, <<"<br/>", "a">>, <<"a", "<br/>", "<br/>", "a">>,
          <<"<b>", "a", "</b>">>, <<"a", " ", "<b>", " ", "a", "</b>">>, <<"<b>", "</b>">>,
          <<"a", CR, NL, "a">>, <<"a", CR>>, <<"&amp;", "lt;">>, <<" ", "<br/>", NL>>}

Section(side, i, hasH, hasP) ==
    [h3 |-> IF hasH THEN El(<<"Custom", Digits[i]>>) ELSE NoEl,
     p |-> IF hasP THEN El(<<side, Digits[i]>>) ELSE NoEl,
     attr |-> Digits[i]]

\* a panel of n sections; section d (if any) lacks its paragraph or its heading
ShapedPanel(side, n, d, kind) ==
    [tag |-> El(<<side, " ", "label">>),
     secs |-> [i \in 1..n |-> Section(side, i, ~(i = d /\ kind = "noH"),
                                      ~(i = d /\ kind = "noP"))]]

UserPanel(n, footcls) ==
    [footcls |-> footcls, secs |-> [i \in 1..n |-> Section("note", i, TRUE, TRUE)]]

MakeDoc(root, body, left, right, user) ==
    [root |-> root, body |-> body,
     h1 |-> IF "h1" \in Range(body) THEN El(<<"Slide">>) ELSE NoEl,
     left |-> IF "left" \in Range(body) THEN left ELSE NoPanel,
     right |-> IF "right" \in Range(body) THEN right ELSE NoPanel,
     user |-> IF "user" \in Range(body) THEN user ELSE NoUser,
     pagenum |-> IF "footer" \in Range(body) THEN El(<<"7">>) ELSE NoEl,
     summary |-> IF "footer" \in Range(body) THEN El(<<"Summary">>) ELSE NoEl]

\* the template: two panels of five sections, then the footer (A) or the notes panel (B)
TemplateDoc(var) ==
    MakeDoc("sl",
            <<"h1", "left", "right">> \o (IF var = "A" THEN <<"footer">> ELSE <<"user">>),
            ShapedPanel("left", NumSections, 0, "none"),
            ShapedPanel("right", NumSections, 0, "none"),
            UserPanel(1, FALSE))

\* a document none of whose elements is a slot (Variant B's FALLBACK_HTML is one)
SlotlessDoc == MakeDoc("nohtml", <<"text">>, NoPanel, NoPanel, NoUser)

VariedSlots(var) ==
    {"title", "left_label", "left_people", "right_output",
     IF var = "A" THEN "page_number" ELSE "user_notes"}

WithSlot(d, slot, e) ==
    CASE slot = "title" -> [d EXCEPT !.h1 = e]
      [] slot = "left_label" -> [d EXCEPT !.left.tag = e]
      [] slot = "left_people" -> [d EXCEPT !.left.secs[1].p = e]
      [] slot = "right_output" -> [d EXCEPT !.right.secs[NumSections].p = e]
      [] slot = "page_number" -> [d EXCEPT !.pagenum = e]
      [] slot = "user_notes" -> [d EXCEPT !.user.secs[1].p = e]

\* template documents with one slot's element varied (or missing)
FieldDocs(var) ==
    {WithSlot(TemplateDoc(var), slot, e) :
        slot \in VariedSlots(var), e \in {El(c) : c \in Contents} \cup {NoEl}}
    \cup {SlotlessDoc}

Layouts ==
    {[body |-> <<"h1", "left", "right", "user">>, usecs |-> 1, footcls |-> FALSE],
     [body |-> <<"h1", "user", "other1", "left", "fid", "right", "footer", "other2">>,
      usecs |-> 2, footcls |-> FALSE],
     [body |-> <<"role", "h1", "left", "right", "fcls">>, usecs |-> 0, footcls |-> FALSE],
     [body |-> <<"h1", "left", "right", "user", "other1">>, usecs |-> 1, footcls |-> TRUE]}

Roots == {"nohtml", "none", "sl"}

\* documents whose structure varies: layout, root, section count, one defective section
ShapedDocs ==
    {MakeDoc(root, lay.body,
             ShapedPanel("left", n, d, IF d = 0 THEN "none" ELSE kind),
             ShapedPanel("right", MaxSections - n, 0, "none"),
             UserPanel(lay.usecs, lay.footcls)) :
        root \in Roots, lay \in Layouts, n \in 0..MaxSections, d \in 0..MaxSections,
        kind \in {"noP", "noH"}}

NoEdit == [mode |-> "none", k |-> "title", v |-> <<>>]

\* a FieldMap none of whose values occurs in an input document
FreshFields(var) == [k \in FieldKeySet(var) |-> <<"new", k>>]

(***************************************************************************)
(* Idle values of the three groups of variables                            *)
(***************************************************************************)
CodecIdle ==
    /\ cpc = "off" /\ value = <<>> /\ el = <<>> /\ markup = <<>> /\ decoded = <<>>

CoreParked ==
    /\ pc = "off" /\ html = SlotlessDoc /\ fields = <<>>
    /\ label_lang = "none" /\ edit = NoEdit /\ out = SlotlessDoc /\ refields = <<>>
    /\ out2 = SlotlessDoc /\ refields2 = <<>>

CoreIdle == variant = "A" /\ CoreParked

AppIdle ==
    /\ app = "off" /\ session = <<>> /\ uploader = <<>> /\ importer = <<>>
    /\ state_file = <<>> /\ preview_html = <<>> /\ current = <<>>
    /\ applied_lang = "none" /\ import_error = FALSE /\ last_action = "none" /\ runs = 0
    /\ pressed = <<>> /\ upload_msg = FALSE /\ form = <<>>

(***************************************************************************)
(* The rich-text codec run: encode, serialise, parse, decode               *)
(***************************************************************************)
InitCodec ==
    /\ cpc = "start" /\ value \in CodecValues
    /\ el = <<TextNode(<<"old">>)>> /\ markup = <<>> /\ decoded = <<>>
    /\ CoreIdle /\ AppIdle

\* set_rich_text(el, value)
SetRichText ==
    /\ cpc = "start"
    /\ el' = RichNodes(value)
    /\ cpc' = "encoded"
    /\ UNCHANGED <<value, markup, decoded, coreVars, appVars>>

\* str(soup)
SerializeEl ==
    /\ cpc = "encoded"
    /\ markup' = Serialize(el)
    /\ cpc' = "serialized"
    /\ UNCHANGED <<value, el, decoded, coreVars, appVars>>

\* BeautifulSoup(html, "html.parser")
ParseEl ==
    /\ cpc = "serialized"
    /\ el' = ParseMarkup(markup)
    /\ cpc' = "parsed"
    /\ UNCHANGED <<value, markup, decoded, coreVars, appVars>>

\* _text_with_newlines(el)
DecodeEl ==
    /\ cpc = "parsed"
    /\ decoded' = TextWithNewlines(el)
    /\ cpc' = "decoded"
    /\ UNCHANGED <<value, el, markup, coreVars, appVars>>

NextCodec == SetRichText \/ SerializeEl \/ ParseEl \/ DecodeEl

SpecCodec == InitCodec /\ [][NextCodec]_vars

(***************************************************************************)
(* The extractor / synthesizer run                                         *)
(***************************************************************************)
CoreStart ==
    /\ pc = "start" /\ fields = <<>> /\ out = SlotlessDoc /\ refields = <<>>
    /\ out2 = SlotlessDoc /\ refields2 = <<>>
    /\ CodecIdle /\ AppIdle

\* template documents, an optional edit of one field, any label language
InitFields ==
    /\ variant \in {"A", "B"}
    /\ \/ /\ html \in FieldDocs(variant)
          /\ edit = NoEdit
          /\ label_lang \in {"none", "en"}
       \/ /\ html = TemplateDoc(variant)
          /\ edit \in {[mode |-> "one", k |-> k, v |-> v] :
                          k \in VariedSlots(variant), v \in EditValues}
          /\ label_lang = "none"
    /\ CoreStart

\* documents of any structure, all fields replaced
InitSynth ==
    /\ variant \in {"A", "B"}
    /\ html \in ShapedDocs
    /\ edit = [NoEdit EXCEPT !.mode = "fresh"]
    /\ label_lang \in {"none", "sl", "en"}
    /\ CoreStart

Extract ==
    /\ pc = "start"
    /\ fields' = parse_html_fields(variant, html)
    /\ pc' = "extracted"
    /\ UNCHANGED <<variant, html, label_lang, edit, out, refields, out2, refields2,
                   codecVars, appVars>>

\* the form layer: the user's edit of the FieldMap
Edit ==
    /\ pc = "extracted"
    /\ fields' = CASE edit.mode = "one" -> [fields EXCEPT ![edit.k] = edit.v]
                   [] edit.mode = "fresh" -> FreshFields(variant)
                   [] OTHER -> fields
    /\ pc' = "edited"
    /\ UNCHANGED <<variant, html, label_lang, edit, out, refields, out2, refields2,
                   codecVars, appVars>>

Synthesize ==
    /\ pc = "edited"
    /\ out' = apply_fields_to_html(variant, html, fields, label_lang)
    /\ pc' = "synth"
    /\ UNCHANGED <<variant, html, fields, label_lang, edit, refields, out2, refields2,
                   codecVars, appVars>>

ReExtract ==
    /\ pc = "synth"
    /\ refields' = parse_html_fields(variant, out)
    /\ pc' = "reextracted"
    /\ UNCHANGED <<variant, html, fields, label_lang, edit, out, out2, refields2,
                   codecVars, appVars>>

\* the first output as the base of a second synthesis
SynthesizeAgain ==
    /\ pc = "reextracted"
    /\ out2' = apply_fields_to_html(variant, out, fields, label_lang)
    /\ pc' = "synth2"
    /\ UNCHANGED <<variant, html, fields, label_lang, edit, out, refields, refields2,
                   codecVars, appVars>>

ReExtractAgain ==
    /\ pc = "synth2"
    /\ refields2' = parse_html_fields(variant, out2)
    /\ pc' = "done"
    /\ UNCHANGED <<variant, html, fields, label_lang, edit, out, refields, out2,
                   codecVars, appVars>>

NextCore ==
    Extract \/ Edit \/ Synthesize \/ ReExtract \/ SynthesizeAgain \/ ReExtractAgain

SpecFields == InitFields /\ [][NextCore]_vars

SpecSynth == InitSynth /\ [][NextCore]_vars

(***************************************************************************)
(* Claims about the codec, the extractor and the synthesizer               *)
(***************************************************************************)
Extracted == pc \in {"extracted", "edited", "synth", "reextracted", "synth2", "done"}
Synthesized == pc \in {"synth", "reextracted", "synth2", "done"}
ReExtracted == pc \in {"reextracted", "synth2", "done"}

AllSections(secs) == \A i \in 1..Len(secs) : secs[i].h3.has /\ secs[i].p.has

\* the template convention: title, two labelled panels of at most five sections with
\* one heading and one paragraph each, and the variant's footer or notes panel
Conforming(var, d) ==
    /\ Has(d, "h1") /\ Has(d, "left") /\ Has(d, "right")
    /\ d.h1.has /\ d.left.tag.has /\ d.right.tag.has
    /\ Len(d.left.secs) <= NumSections /\ Len(d.right.secs) <= NumSections
    /\ AllSections(d.left.secs) /\ AllSections(d.right.secs)
    /\ IF var = "A"
       THEN Has(d, "footer") /\ d.pagenum.has /\ d.summary.has
       ELSE Has(d, "user") /\ ~d.user.footcls /\ Len(d.user.secs) = 1
            /\ AllSections(d.user.secs)
            /\ \A i \in 1..Len(d.body) : d.body[i] \notin FooterKinds

\* C1: round-trip identity: for a template-conforming document D,
\* extract(synthesize(D, extract(D), no label language)) = extract(D), field by field.
C1_RoundTrip ==
    (ReExtracted /\ edit.mode = "none" /\ label_lang = "none" /\ Conforming(variant, html))
        => refields = fields

\* C2: single-field edit: with F = extract(D) except F[k] = v, extracting the
\* synthesized document yields v for k, bit for bit, and extract(D)[j] for every other j.
C2_SingleFieldEdit ==
    (ReExtracted /\ edit.mode = "one")
        => /\ refields[edit.k] = edit.v
           /\ \A j \in FieldKeySet(variant) \ {edit.k} :
                 refields[j] = parse_html_fields(variant, html)[j]

\* C3: multi-line fidelity: a value of newline-separated segments (empty ones included)
\* with markup-significant characters, encoded into a slot, serialised and decoded again,
\* comes back exactly, and none of its characters has become an element.
C3_MultiLineFidelity ==
    (cpc = "decoded" /\ CR \notin Range(value))
        => /\ decoded = value
           /\ \A i \in 1..Len(el) : el[i].t \in {"text", "br"}

\* the slot of field k is missing from h or extracts to the empty string
SlotEmpty(var, h, k) == RawField(var, Soup(h), k) = <<>>

DefaultsSubstituted(var, h, f) ==
    /\ DOMAIN f = FieldKeySet(var)
    /\ \A k \in FieldKeySet(var) : SlotEmpty(var, h, k) => f[k] = DEFAULTS(var)[k]

\* C4 as stated: extract returns a complete FieldMap, a missing or empty slot yields the
\* schema default, and no field of the result is ever the empty string.
C4_NoEmptyField ==
    Extracted =>
        /\ DefaultsSubstituted(variant, html, parse_html_fields(variant, html))
        /\ \A k \in FieldKeySet(variant) : parse_html_fields(variant, html)[k] # <<>>

\* C4 amended: extract returns a complete FieldMap, a missing or empty slot yields the
\* schema default, and no field is the empty string except user_notes of Variant B,
\* whose schema default is the empty string.
C4_DefaultSubstitution ==
    /\ pc = "extracted" =>
          /\ DefaultsSubstituted(variant, html, fields)
          /\ \A k \in FieldKeySet(variant) : fields[k] = <<>> => k = "user_notes"
    /\ ReExtracted =>
          /\ DefaultsSubstituted(variant, out, refields)
          /\ \A k \in FieldKeySet(variant) : refields[k] = <<>> => k = "user_notes"

C4_Witness ==
    /\ pc = "extracted" /\ variant = "B" /\ html = SlotlessDoc
    /\ fields["title"] = TBD /\ fields["user_notes"] = <<>>

Sides == {"left", "right"}
ContentKeys(side) == IF side = "left" THEN LEFT_KEYS ELSE RIGHT_KEYS

\* the serialised content a slot has after value v was written into it
Written(var, v) == Serialize(IF var = "A" THEN StringNodes(v) ELSE RichNodes(v))

\* section i of the output is section i of the base: same custom attribute, same elements
SameSection(o, b) == o.attr = b.attr /\ o.p.has = b.p.has /\ o.h3.has = b.h3.has

FooterLandmarks(d) ==
    {i \in 1..Len(d.body) :
        d.body[i] \in {"footer", "role", "fid", "fcls"} \/ (d.body[i] = "user" /\ d.user.footcls)}

NotesLast(d) == Has(d, "user") /\ d.body[Len(d.body)] = "user"

C7_HeadingRewrite ==
    (Synthesized /\ label_lang \in {"sl", "en"}) =>
        /\ out.root = label_lang
        /\ \A side \in Sides :
              LET o == Panel(out, side).secs
              IN \A i \in 1..NumSections :
                    (i <= Len(o) /\ o[i].h3.has) =>
                        o[i].h3.kids = Escape(STATIC_LABELS[label_lang][i])

\* C7 amended: with L in {sl, en}, the root language is L if the base has a root html
\* element (otherwise nothing declares a language), and the j-th heading found in a
\* panel's sections, j = 1..5, is L's vocabulary string for position j (the heading of
\* section j when no earlier section lacks a heading); later headings are untouched.
C7_HeadingRewriteByRank ==
    (Synthesized /\ label_lang \in {"sl", "en"}) =>
        /\ out.root = IF html.root = "nohtml" THEN "nohtml" ELSE label_lang
        /\ \A side \in Sides :
              LET o == Panel(out, side).secs
                  b == Panel(html, side).secs
              IN \A i \in 1..Len(o) :
                    LET r == Cardinality({j \in 1..i : o[j].h3.has})
                    IN o[i].h3.has =>
                          o[i].h3.kids = IF r <= NumSections
                                         THEN Escape(STATIC_LABELS[label_lang][r])
                                         ELSE b[i].h3.kids

C7_Witness ==
    /\ pc = "synth" /\ label_lang = "en" /\ html.root = "none" /\ out.root = "en"
    /\ Len(out.left.secs) >= NumSections /\ AllSections(out.left.secs)
    /\ \A i \in 1..NumSections : out.left.secs[i].h3.kids = STATIC_LABELS["en"][i]

\* What C8 says synthesize leaves alone: the document without the content of the
\* recognised slots and, where requested or applicable, without the rewritten headings,
\* the root language, the surplus sections, the footer landmarks and the position of
\* the notes panel.
Blank(e) == [has |-> e.has, kids |-> <<>>]

OutsideSecs(secs, keep, lang) ==
    LET s == FirstN(secs, keep)
    IN [i \in 1..Len(s) |->
           [attr |-> s[i].attr,
            p |-> IF Cardinality({j \in 1..i : s[j].p.has}) <= NumSections
                  THEN Blank(s[i].p) ELSE s[i].p,
            h3 |-> IF lang \in {"sl", "en"}
                      /\ Cardinality({j \in 1..i : s[j].h3.has}) <= NumSections
                   THEN Blank(s[i].h3) ELSE s[i].h3]]

Outside(var, lang, d) ==
    LET keep == IF var = "B" THEN NumSections ELSE Len(d.left.secs) + Len(d.right.secs)
        notes == var = "B" /\ Has(d, "user") /\ ~d.user.footcls
    IN [root |-> IF lang \in {"sl", "en"} /\ d.root # "nohtml" THEN "any" ELSE d.root,
        body |-> IF var = "B"
                 THEN SelectSeq(d.body, LAMBDA item : item \notin FooterKinds \cup {"user"})
                 ELSE d.body,
        h1 |-> Blank(d.h1),
        left |-> [tag |-> Blank(d.left.tag), secs |-> OutsideSecs(d.left.secs, keep, lang)],
        right |-> [tag |-> Blank(d.right.tag), secs |-> OutsideSecs(d.right.secs, keep, lang)],
        notes |-> notes,
        user |-> IF var = "A" THEN d.user.secs
                 ELSE IF notes /\ d.user.secs # <<>>
                      THEN <<[d.user.secs[1] EXCEPT !.p = Blank(@)]>> ELSE <<>>,
        footer |-> IF var = "A" THEN <<Blank(d.pagenum), Blank(d.summary)>> ELSE <<>>]

SectionText(var, d, side, i) ==
    LET secs == Panel(Soup(d), side).secs
    IN IF Has(d, side) /\ i <= Len(secs) THEN ElText(var, secs[i].p) ELSE <<>>

\* C13: positional slot indexing: in any document the i-th section of a panel, in
\* document order, is the slot of the panel's i-th content field for extract and for
\* synthesize, so synthesize writes a field into the section extract reads it from.
C13_PositionalSlots ==
    \A side \in Sides : \A i \in 1..NumSections :
        LET k == ContentKeys(side)[i]
            o == Panel(out, side).secs
            ps == Paragraphs(html, side)
        IN /\ pc = "extracted" =>
                 fields[k] = SubstituteDefault(variant, k, SectionText(variant, html, side, i))
           /\ (Synthesized /\ i <= Len(o) /\ o[i].p.has) =>
                 o[i].p.kids = Written(variant, fields[k])
           /\ (Synthesized /\ i <= Len(ps)) =>
                 /\ ps[i] <= Len(o)
                 /\ o[ps[i]].p.kids = Written(variant, fields[k])

(***************************************************************************)
(* The Streamlit script: one action is one run of the script               *)
(***************************************************************************)
Placeholder(k) == <<"{{", k, "}}">>

FallbackPanel(keys) ==
    [tag |-> El(Placeholder(IF keys = LEFT_KEYS THEN "left_label" ELSE "right_label")),
     secs |-> [i \in 1..NumSections |->
                  [h3 |-> El(STATIC_LABELS["sl"][i]), p |-> El(Placeholder(keys[i])),
                   attr |-> ""]]]

\* FALLBACK_HTML: Variant A's is the template with placeholders, Variant B's is text
\* without a single element
FALLBACK_HTML(var) ==
    IF var = "A"
    THEN [root |-> "sl", body |-> <<"h1", "left", "right", "footer">>,
          h1 |-> El(Placeholder("title")),
          left |-> FallbackPanel(LEFT_KEYS), right |-> FallbackPanel(RIGHT_KEYS),
          user |-> NoUser,
          pagenum |-> El(Placeholder("page_number")),
          summary |-> El(Placeholder("footer_summary"))]
    ELSE SlotlessDoc

\* files a user can hand to the uploader
Files == {"template", "long", "english", "short"}

FileDoc(var, f) ==
    CASE f = "template" -> TemplateDoc(var)
      [] f = "long" ->
            MakeDoc("none",
                    <<"h1", "user", "other1", "left", "fid", "right", "footer", "other2">>,
                    ShapedPanel("left", NumSections + 1, 2, "noP"),
                    ShapedPanel("right", NumSections, 0, "none"),
                    UserPanel(2, FALSE))
      [] f = "english" -> [TemplateDoc(var) EXCEPT !.root = "en", !.h1 = El(<<"<br/>", "a">>)]
      [] f = "short" ->
            MakeDoc("sl", <<"h1", "left", "right", "user">>,
                    ShapedPanel("left", 2, 1, "noH"),
                    ShapedPanel("right", 0, 0, "none"),
                    UserPanel(1, FALSE))

\* hash(file_bytes): distinct files have distinct hashes
Hash(f) == f

NoFields == [k \in {} |-> <<>>]

\* JSON files a user can hand to the importer (Variant A)
Imports == {"complete", "partial", "list", "garbage"}

\* json.load(saved_json) of a parseable file
ImportData(j) ==
    CASE j = "complete" -> FreshFields("A")
      [] j = "partial" -> [k \in {"title"} |-> <<"imported">>]
      [] OTHER -> NoFields

\* what the user typed into the form widgets since the last run
Typed ==
    {NoFields, [k \in {"title"} |-> <<"typed">>], [k \in {"title"} |-> <<>>],
     [k \in {"left_people"} |-> <<"a", NL, NL, "b">>]}

\* a press of "Translate": the target, whether the translator library is installed,
\* and the fields for which the call raises
TranslateOutcomes ==
    {[dest |-> "sl", gt |-> TRUE, failing |-> {}],
     [dest |-> "en", gt |-> TRUE, failing |-> {}],
     [dest |-> "en", gt |-> FALSE, failing |-> {}],
     [dest |-> "en", gt |-> TRUE, failing |-> {"title"}]}

\* st.session_state.get(k, default) on the field keys
Get(f, k, default) == IF k \in DOMAIN f THEN f[k] ELSE default

\* init_fields(fields): every FIELD_KEY is (over)written
init_fields(var, given) ==
    [k \in FieldKeySet(var) |-> Get(given, k, DEFAULTS(var)[k])]

\* clear_widget_state(): every FIELD_KEY is popped
clear_widget_state(f) == NoFields

\* GoogleTranslator(source, target).translate(txt): the external translator
Translated(txt, dest) ==
    <<dest>> \o (IF txt # <<>> /\ Head(txt) \in {"sl", "en"} THEN Tail(txt) ELSE txt)

TranslateOrBlank(txt, src, dest, gt, fails) ==
    IF txt = <<>> THEN txt
    ELSE IF ~gt \/ src = dest THEN txt
    ELSE IF fails THEN <<>>
    ELSE Translated(txt, dest)

\* translate_text(txt, src, dest); gt: the library is installed; fails: the call raises
translate_text(txt, src, dest, gt, fails) ==
    IF txt = <<>> THEN txt
    ELSE IF ~gt \/ src = dest THEN txt
    ELSE IF fails THEN txt
    ELSE Translated(txt, dest)

\* detect_ui_labels_from_html(html)["doc_lang"]
DocLang(d) == IF d.root \in {"sl", "en"} THEN d.root ELSE "none"

\* h.get_text(separator=" ", strip=True)
HeadingText(nodes) == Join(AllStrings(nodes, TRUE), <<" ">>)

\* _headings_from_panel(soup, panel_sel): the text of h3s[:5]
headings_from_panel(d, side) ==
    LET hs == FirstN(Headings(d, side), NumSections)
    IN [j \in 1..Len(hs) |-> HeadingText(Panel(d, side).secs[hs[j]].h3.kids)]

\* detect_ui_labels_from_html(html)
detect_ui_labels_from_html(h) ==
    [left |-> headings_from_panel(Soup(h), "left"),
     right |-> headings_from_panel(Soup(h), "right"),
     doc_lang |-> DocLang(h)]

\* st.session_state["_ui_labels"]: absent, as detected on upload, as reset by Clear
NoUi == [has |-> FALSE, left |-> <<>>, right |-> <<>>]
DetectedUi(h) ==
    [has |-> TRUE, left |-> detect_ui_labels_from_html(h).left,
     right |-> detect_ui_labels_from_html(h).right]
EnglishUi == [has |-> TRUE, left |-> STATIC_LABELS["en"], right |-> STATIC_LABELS["en"]]

Pad5Front(lst, lang_fallback) ==
    IF Len(lst) >= NumSections THEN SubSeq(lst, 1, NumSections)
    ELSE SubSeq(STATIC_LABELS[lang_fallback], 1, NumSections - Len(lst)) \o lst

\* _pad5(lst, lang_fallback): lst[:5], or lst + defaults[-need:]
pad5(lst, lang_fallback) ==
    IF Len(lst) >= NumSections THEN SubSeq(lst, 1, NumSections)
    ELSE LET defaults == STATIC_LABELS[lang_fallback]
             need == NumSections - Len(lst)
         IN lst \o SubSeq(defaults, Len(defaults) - need + 1, Len(defaults))

\* the labels of the form of Variant A are literals of the script
FixedForm == [left |-> STATIC_LABELS["en"], right |-> STATIC_LABELS["en"]]

NoPreview == [has |-> FALSE, doc |-> SlotlessDoc]
NoBase == [has |-> FALSE, doc |-> SlotlessDoc]

\* st.session_state.get("base_html", FALLBACK_HTML)
BaseHtml(var, base) == IF base.has THEN base.doc ELSE FALLBACK_HTML(var)

\* st.session_state.get("_label_lang", "sl")
LabelLang(lang) == IF lang = "absent" THEN "sl" ELSE lang

\* sidebar, "if uploaded is not None": a file whose hash differs from _upload_hash
UploadStep(var, rs, up) ==
    IF up # "none" /\ rs.hash # Hash(up)
    THEN [rs EXCEPT !.base = [has |-> TRUE, doc |-> FileDoc(var, up)],
                    !.f = init_fields(var, parse_html_fields(var, FileDoc(var, up))),
                    !.lang = IF var = "B" /\ DocLang(FileDoc(var, up)) \in {"sl", "en"}
                             THEN DocLang(FileDoc(var, up)) ELSE @,
                    !.ui = IF var = "B" THEN DetectedUi(FileDoc(var, up)) ELSE @,
                    !.hash = Hash(up),
                    !.msg = TRUE]
    ELSE [rs EXCEPT !.msg = FALSE]

\* "Save fields": persist(...), whose write may fail silently
SaveStep(var, rs, ok) ==
    IF ok
    THEN [rs EXCEPT !.file = [has |-> TRUE,
                              data |-> [k \in FieldKeySet(var) |->
                                           Get(rs.f, k, DEFAULTS(var)[k])]]]
    ELSE rs

\* "Load fields": load_persisted(), None when there is no file or the read fails
LoadStep(var, rs, ok) ==
    IF ok /\ rs.file.has /\ DOMAIN rs.file.data # {}
    THEN [rs EXCEPT !.f = init_fields(var,
                              [k \in FieldKeySet(var) |->
                                  Get(rs.file.data, k, DEFAULTS(var)[k])])]
    ELSE rs

\* "Translate current fields"
TranslateStep(var, rs, dest, gt, failing) ==
    LET src == IF dest = "en" THEN "sl" ELSE "en"
    IN [rs EXCEPT !.f = init_fields(var,
                            [k \in FieldKeySet(var) |->
                                translate_text(Get(rs.f, k, <<>>), src, dest, gt,
                                               k \in failing)]),
                  !.lang = dest]

ClearKeepsBase(var, rs) ==
    [rs EXCEPT !.f = init_fields(var, [k \in FieldKeySet(var) |-> <<>>]),
               !.hash = "none"]

\* "Clear all fields"
ClearStep(var, rs) ==
    [rs EXCEPT !.f = init_fields(var, [k \in FieldKeySet(var) |-> <<>>]),
               !.base = [has |-> TRUE, doc |-> FALLBACK_HTML(var)],
               !.ui = IF var = "B" THEN EnglishUi ELSE @,
               !.hash = "none"]

\* main: "if not any(k in st.session_state for k in FIELD_KEYS): init_fields(DEFAULTS)"
MainStep(var, rs) ==
    IF DOMAIN rs.f \cap FieldKeySet(var) = {}
    THEN [rs EXCEPT !.f = init_fields(var, DEFAULTS(var))]
    ELSE rs

\* main, Variant B: left_names / right_names, "ui_labels.get(side) or [English
\* vocabulary]", then _pad5 with the stored label language as fallback
FormStep(var, rs) ==
    IF var = "A" THEN [rs EXCEPT !.form = FixedForm]
    ELSE LET fallback_lang == LabelLang(rs.lang)
             names(lst) == IF lst = <<>> THEN STATIC_LABELS["en"] ELSE lst
         IN [rs EXCEPT !.form = [left |-> pad5(names(rs.ui.left), fallback_lang),
                                 right |-> pad5(names(rs.ui.right), fallback_lang)]]

PreviewFromOutput(var, rs, submitted) ==
    IF var = "A" \/ submitted
    THEN LET cur == [k \in FieldKeySet(var) |-> Get(rs.f, k, DEFAULTS(var)[k])]
             from == IF rs.prev.has THEN rs.prev.doc ELSE BaseHtml(var, rs.base)
             new == apply_fields_to_html(var, from, cur, LabelLang(rs.lang))
         IN [rs EXCEPT !.cur = cur, !.alang = LabelLang(rs.lang),
                       !.base = [has |-> TRUE, doc |-> new],
                       !.prev = [has |-> TRUE, doc |-> new]]
    ELSE [rs EXCEPT !.prev = NoPreview]

\* the preview: on every run in Variant A, "if submitted" in Variant B
PreviewStep(var, rs, submitted) ==
    IF var = "A" \/ submitted
    THEN LET cur == [k \in FieldKeySet(var) |-> Get(rs.f, k, DEFAULTS(var)[k])]
         IN [rs EXCEPT !.cur = cur, !.alang = LabelLang(rs.lang),
                       !.prev = [has |-> TRUE,
                                 doc |-> apply_fields_to_html(var, BaseHtml(var, rs.base),
                                                              cur, LabelLang(rs.lang))]]
    ELSE [rs EXCEPT !.prev = NoPreview]

\* Variant A, "Import fields JSON": json.load, clear_widget_state, init_fields; any
\* exception is caught and shown. data.get raises on a value that is not a record,
\* after clear_widget_state has run.
ImportStep(var, rs, imp) ==
    IF var # "A" \/ imp = "none" THEN [rs EXCEPT !.err = FALSE]
    ELSE IF imp = "garbage" THEN [rs EXCEPT !.err = TRUE]
    ELSE IF imp = "list" THEN [rs EXCEPT !.f = clear_widget_state(rs.f), !.err = TRUE]
    ELSE [rs EXCEPT !.f = init_fields(var,
                              [k \in FieldKeySet(var) |->
                                  Get(ImportData(imp), k, DEFAULTS(var)[k])]),
                    !.err = FALSE]

NoButton == [t |-> "none", dest |-> "sl", gt |-> FALSE, failing |-> {}, ok |-> FALSE]

ButtonStep(var, rs, b) ==
    LET r == CASE b.t = "save" -> SaveStep(var, rs, b.ok)
               [] b.t = "load" -> LoadStep(var, rs, b.ok)
               [] b.t = "translate" -> TranslateStep(var, rs, b.dest, b.gt, b.failing)
               [] b.t = "clear" -> ClearStep(var, rs)
               [] OTHER -> rs
    IN [r EXCEPT !.btn = b]

\* one run of the script, top to bottom
RunScript(var, rs, up, b, submitted, imp) ==
    ImportStep(var,
        PreviewStep(var,
                    FormStep(var, MainStep(var, ButtonStep(var, UploadStep(var, rs, up), b))),
                    submitted),
        imp)

RunState ==
    [f |-> session.fields, base |-> session.base, hash |-> session.hash,
     lang |-> session.lang, file |-> state_file, prev |-> preview_html,
     cur |-> current, alang |-> applied_lang, err |-> import_error,
     ui |-> session.ui, btn |-> pressed, msg |-> upload_msg, form |-> form]

\* the variables after a run that ended in rs
Ran(rs, action) ==
    /\ session' = [fields |-> rs.f, base |-> rs.base, hash |-> rs.hash, lang |-> rs.lang,
                   ui |-> rs.ui]
    /\ pressed' = rs.btn
    /\ upload_msg' = rs.msg
    /\ form' = rs.form
    /\ state_file' = rs.file
    /\ preview_html' = rs.prev
    /\ current' = rs.cur
    /\ applied_lang' = rs.alang
    /\ import_error' = rs.err
    /\ last_action' = action
    /\ runs' = runs + 1
    /\ UNCHANGED <<app, codecVars, coreVars>>

\* the state after the first run of the script: nothing uploaded, nothing pressed
FirstRun(var) ==
    RunScript(var,
              [f |-> NoFields, base |-> NoBase, hash |-> "none", lang |-> "absent",
               file |-> [has |-> FALSE, data |-> NoFields], prev |-> NoPreview,
               cur |-> NoFields, alang |-> "none", err |-> FALSE,
               ui |-> NoUi, btn |-> NoButton, msg |-> FALSE, form |-> FixedForm],
              "none", NoButton, FALSE, "none")

Init ==
    /\ variant \in {"A", "B"}
    /\ app = "on"
    /\ uploader = "none" /\ importer = "none"
    /\ session = [fields |-> FirstRun(variant).f, base |-> FirstRun(variant).base,
                  hash |-> FirstRun(variant).hash, lang |-> FirstRun(variant).lang,
                  ui |-> FirstRun(variant).ui]
    /\ pressed = NoButton /\ upload_msg = FALSE /\ form = FirstRun(variant).form
    /\ state_file = FirstRun(variant).file
    /\ preview_html = FirstRun(variant).prev
    /\ current = FirstRun(variant).cur
    /\ applied_lang = FirstRun(variant).alang
    /\ import_error = FALSE
    /\ last_action = "start"
    /\ runs = 0
    /\ CoreParked /\ CodecIdle

\* a further run of the script can be explored
CanRun == app = "on" /\ runs < MaxRuns

\* the user picks a file in the uploader
Upload ==
    /\ CanRun
    /\ \E f \in Files :
          /\ uploader' = f
          /\ Ran(RunScript(variant, RunState, f, NoButton, FALSE, importer), "upload")
    /\ UNCHANGED importer

\* the user removes the file from the uploader
RemoveUpload ==
    /\ CanRun /\ uploader # "none"
    /\ uploader' = "none"
    /\ Ran(RunScript(variant, RunState, "none", NoButton, FALSE, importer), "remove")
    /\ UNCHANGED importer

Save ==
    /\ CanRun /\ variant = "A"
    /\ \E ok \in BOOLEAN :
          Ran(RunScript(variant, RunState, uploader, [NoButton EXCEPT !.t = "save", !.ok = ok],
                        FALSE, importer), "save")
    /\ UNCHANGED <<uploader, importer>>

Load ==
    /\ CanRun /\ variant = "A"
    /\ \E ok \in BOOLEAN :
          Ran(RunScript(variant, RunState, uploader, [NoButton EXCEPT !.t = "load", !.ok = ok],
                        FALSE, importer), "load")
    /\ UNCHANGED <<uploader, importer>>

Translate ==
    /\ CanRun
    /\ \E tr \in TranslateOutcomes :
          Ran(RunScript(variant, RunState, uploader,
                        [NoButton EXCEPT !.t = "translate", !.dest = tr.dest, !.gt = tr.gt,
                                         !.failing = tr.failing],
                        FALSE, importer), "translate")
    /\ UNCHANGED <<uploader, importer>>

Clear ==
    /\ CanRun
    /\ Ran(RunScript(variant, RunState, uploader, [NoButton EXCEPT !.t = "clear"],
                     FALSE, importer), "clear")
    /\ UNCHANGED <<uploader, importer>>

\* the form is submitted: the widget values typed since the last run reach the
\* session, then the script runs with submitted = True
Apply ==
    /\ CanRun
    /\ \E typed \in Typed :
          LET rs == [RunState EXCEPT
                        !.f = [k \in DOMAIN @ |-> Get(typed, k, @[k])]]
          IN Ran(RunScript(variant, rs, uploader, NoButton, TRUE, importer), "apply")
    /\ UNCHANGED <<uploader, importer>>

\* Variant A: the user picks a file in the JSON importer
Import ==
    /\ CanRun /\ variant = "A"
    /\ \E j \in Imports :
          /\ importer' = j
          /\ Ran(RunScript(variant, RunState, uploader, NoButton, FALSE, j), "import")
    /\ UNCHANGED uploader

RemoveImport ==
    /\ CanRun /\ variant = "A" /\ importer # "none"
    /\ importer' = "none"
    /\ Ran(RunScript(variant, RunState, uploader, NoButton, FALSE, "none"), "unimport")
    /\ UNCHANGED uploader

Next ==
    \/ Upload \/ RemoveUpload \/ Save \/ Load \/ Translate \/ Clear \/ Apply
    \/ Import \/ RemoveImport

Spec == Init /\ [][Next]_vars

(***************************************************************************)
(* Claims about the session                                                *)
(***************************************************************************)
\* the stored base is an uploaded document or the fallback skeleton
BaseIsUploaded ==
    session.base.has =>
        session.base.doc \in {FileDoc(variant, f) : f \in Files} \cup {FALLBACK_HTML(variant)}

\* the preview on display was synthesized from the stored base
PreviewFromBase ==
    preview_html.has =>
        preview_html.doc =
            apply_fields_to_html(variant, BaseHtml(variant, session.base), current,
                                 applied_lang)

\* a run that applies, and in which the upload handler does not fire, keeps the base
ApplyKeepsBase ==
    (last_action' = "apply" /\ (uploader = "none" \/ session.hash = Hash(uploader)))
        => session'.base = session.base

\* a preview made from the same FieldMap, label language and base as the one before
SamePreviewAgain ==
    (preview_html.has /\ preview_html'.has /\ current' = current
     /\ applied_lang' = applied_lang /\ session'.base = session.base)
        => preview_html' = preview_html

C10_FieldMapComplete ==
    app = "on" => DOMAIN session.fields = FieldKeySet(variant)

\* the FieldMap as the sidebar handlers and the first-time initialisation left it in
\* the last run: Variant A computes "current" from it before the import section runs
HandlerFields == IF variant = "A" THEN current ELSE session.fields

AllEmpty == [k \in FieldKeySet(variant) |-> <<>>]

\* C11 as stated: after the clear action every field equals its schema default and the
\* base document is the fallback skeleton.
C11_ClearResetsToDefaults ==
    (app = "on" /\ last_action = "clear") =>
        /\ HandlerFields = DEFAULTS(variant)
        /\ session.base = [has |-> TRUE, doc |-> FALLBACK_HTML(variant)]

\* C11 amended: after the clear action every field is the empty string, not its schema
\* default, the base document is the fallback skeleton and no upload counts as
\* processed; the session keeps the empty fields to the end of the run unless
\* Variant A's importer holds a JSON value, which the import section then loads.
C11_ClearEmptiesFields ==
    (app = "on" /\ last_action = "clear") =>
        /\ HandlerFields = AllEmpty
        /\ importer \in {"none", "garbage"} => session.fields = AllEmpty
        /\ session.base = [has |-> TRUE, doc |-> FALLBACK_HTML(variant)]
        /\ session.hash = "none"

C11_Witness ==
    /\ app = "on" /\ last_action = "clear" /\ uploader = "long" /\ upload_msg
    /\ session.fields["left_label"] = <<>>
    /\ session.base.doc = FALLBACK_HTML(variant)

\* the FieldMap the translate handler starts from: the session's, after the upload
\* handler of the same run
BeforeButton == UploadStep(variant, RunState, uploader).f

\* C12: translation is best-effort per field: in a translate action a field for which
\* the translator is absent or the call fails keeps exactly its previous value, every
\* other field takes the translator's result, and equal source and target languages
\* or an absent translator leave any text as it is.
C12_BestEffortTranslate ==
    /\ [][(app = "on" /\ last_action' = "translate") =>
             \A k \in FieldKeySet(variant) :
                 LET txt == Get(BeforeButton, k, <<>>)
                     affected == ~pressed'.gt \/ k \in pressed'.failing
                 IN HandlerFields'[k] =
                        IF affected \/ txt = <<>> THEN txt ELSE Translated(txt, pressed'.dest)]_vars
    /\ [](app = "on" =>
             \A k \in DOMAIN session.fields : \A l \in {"sl", "en"} :
                 /\ translate_text(session.fields[k], l, l, TRUE, FALSE) = session.fields[k]
                 /\ translate_text(session.fields[k], "sl", l, FALSE, FALSE) = session.fields[k])

C12_Witness ==
    /\ app = "on" /\ last_action = "translate"
    /\ pressed.gt /\ pressed.failing = {"title"} /\ pressed.dest = "en"
    /\ session.hash = Hash("english")
    /\ HandlerFields["title"] = <<"a">>
    /\ HandlerFields["left_label"] = <<"en", "left", " ", "label">>

\* C14: upload guard: a run in which the uploader still holds the file it held in the
\* run before (the run following an edit, a translate or a clear) never re-extracts
\* and never replaces the base document; only picking a file makes the handler run.
C14_UploadGuard ==
    [][app = "on" =>
          /\ (uploader' = uploader /\ uploader # "none") =>
                 /\ ~upload_msg'
                 /\ last_action' # "clear" => session'.base = session.base
          /\ upload_msg' => uploader' # "none"]_vars

\* the text of the j-th heading of a panel of h, in document order
HeadingAt(h, side, j) ==
    HeadingText(ParseMarkup(Panel(h, side).secs[Headings(h, side)[j]].h3.kids))

\* what an upload that has just been processed detected: at most five headings per
\* panel, in document order
DetectorInOrder ==
    (upload_msg /\ last_action # "clear") =>
        \A side \in Sides :
            LET det == session.ui[side]
                h == FileDoc(variant, uploader)
            IN /\ Len(det) <= NumSections
               /\ Len(det) = IF Len(Headings(h, side)) > NumSections THEN NumSections
                             ELSE Len(Headings(h, side))
               /\ \A j \in 1..Len(det) : det[j] = HeadingAt(h, side, j)

\* C15 as stated (Variant B): the detector returns at most five headings per panel,
\* in document order; the form has exactly five labels per panel, the detected headings
\* first and, in the remaining positions (all five when none was detected), the
\* vocabulary of the stored label language for those positions; the detected document
\* language is sl, en or undetermined.
C15_FormLabels ==
    (app = "on" /\ variant = "B") =>
        /\ DetectorInOrder
        /\ session.lang \in {"absent", "sl", "en"}
        /\ \A side \in Sides :
              LET det == session.ui[side]
              IN /\ Len(form[side]) = NumSections
                 /\ \A j \in 1..NumSections :
                       form[side][j] = IF j <= Len(det) THEN det[j]
                                       ELSE STATIC_LABELS[LabelLang(session.lang)][j]

\* C15 amended: as stated when at least one heading was detected; when none was (or
\* nothing was uploaded yet), all five labels are the English vocabulary, whatever the
\* stored label language.
C15_FormLabelsEnglishWhenNone ==
    (app = "on" /\ variant = "B") =>
        /\ DetectorInOrder
        /\ session.lang \in {"absent", "sl", "en"}
        /\ \A side \in Sides :
              LET det == session.ui[side]
              IN /\ Len(form[side]) = NumSections
                 /\ \A j \in 1..NumSections :
                       form[side][j] = IF det = <<>> THEN STATIC_LABELS["en"][j]
                                       ELSE IF j <= Len(det) THEN det[j]
                                       ELSE STATIC_LABELS[LabelLang(session.lang)][j]

C15_Witness ==
    /\ app = "on" /\ variant = "B" /\ upload_msg /\ uploader = "short"
    /\ session.lang = "sl"
    /\ form.left = <<<<"Custom", "2">>>> \o SubSeq(STATIC_LABELS["sl"], 2, NumSections)
    /\ form.right = STATIC_LABELS["en"]

\* C16 (Variant A): an import that cannot be used, unparseable text or a value that is
\* not a key-value record, surfaces an error and leaves every schema key of the
\* FieldMap with the value it had before the attempt.
C16_FailedImportKeepsFields ==
    (app = "on" /\ variant = "A" /\ importer \in {"garbage", "list"}) =>
        /\ import_error
        /\ session.fields = current

\* the headings at section positions 1-5 of both panels of a document
HeadingsShown(d) ==
    UNION {{Panel(d, side).secs[i].h3.kids :
               i \in {j \in 1..NumSections : j <= Len(Panel(d, side).secs)
                                               /\ Panel(d, side).secs[j].h3.has}} :
           side \in {sd \in Sides : Has(d, sd)}}

Vocabulary(lang) == {Escape(STATIC_LABELS[lang][i]) : i \in 1..NumSections}

\* C17: the stored label language is always sl or en (sl when nothing stored it); it
\* changes only in a translate action or an upload of a document declaring sl or en,
\* never in a clear, an edit or an apply; every preview is made with a supported
\* language and shows, at positions 1-5 of both panels, only headings of that
\* language's vocabulary.
C17_LabelLanguage ==
    /\ [](app = "on" =>
             /\ LabelLang(session.lang) \in {"sl", "en"}
             /\ preview_html.has =>
                    /\ applied_lang \in {"sl", "en"}
                    /\ HeadingsShown(preview_html.doc) \subseteq Vocabulary(applied_lang))
    /\ [][(app = "on" /\ session'.lang # session.lang) =>
             \/ last_action' = "translate"
             \/ /\ last_action' = "upload"
                /\ DocLang(FileDoc(variant, uploader')) = session'.lang]_vars

====
